---- MODULE Spec2Model ----
(***************************************************************************)
(* Model of https_server.py: a development HTTPS server that provisions a  *)
(* self-signed credential file (server.pem) on first run, then binds a     *)
(* listener, loads the credential into a TLS context, wraps the socket and *)
(* serves until interrupted.  The script is run repeatedly; server.pem is  *)
(* the only state that survives from one run to the next.                  *)
(***************************************************************************)
EXTENDS Integers, Sequences, FiniteSets, TLC

VARIABLES
    file,        \* content of server.pem on disk
    env,         \* what this run's environment provides (tool, library, disk, port)
    pc,          \* position of the script
    run,         \* number of the current run of the script
    startFile,   \* content of server.pem when the current run started
    attempts,    \* generation methods entered in this run, in order
    provision,   \* how the provisioning block ended in this run
    sock,        \* httpd.socket
    listened,    \* whether HTTPServer was constructed (bound, listening) in this run
    loadResult,  \* outcome of context.load_cert_chain in this run
    backlog,     \* connections completed by the kernel, not yet accepted
    handled,     \* connections handed to the request handler, by transport
    exit         \* how the process ended

vars == <<file, env, pc, run, startFile, attempts, provision, sock,
          listened, loadResult, backlog, handled, exit>>

----------------------------------------------------------------------------
(* Bounds *)

MaxRuns == 3
MaxBacklog == 1
MaxHandled == 2

----------------------------------------------------------------------------
(* Configuration *)

PORT == 8443

----------------------------------------------------------------------------
(* server.pem *)

Key(origin, n) == [kind |-> "KEY", id |-> <<origin, n>>]
Cert(origin, n) == [kind |-> "CERT", id |-> <<origin, n>>]
Junk == [kind |-> "JUNK", id |-> <<"operator", 0>>]

Absent == [exists |-> FALSE, data |-> <<>>]
Content(blocks) == [exists |-> TRUE, data |-> blocks]

\* openssl req -new -x509 -keyout server.pem -out server.pem: key, then certificate
OpensslOutput(n) == Content(<<Key("openssl", n), Cert("openssl", n)>>)
\* openssl stopped after writing the key
OpensslPartial(n) == Content(<<Key("openssl", n)>>)

\* f.write(private key PEM); f.write(certificate PEM)
MethodBOutput_CertFirst(n) == Content(<<Cert("python", n), Key("python", n)>>)
MethodBOutput(n) == Content(<<Key("python", n), Cert("python", n)>>)
\* the second write failed
MethodBPartial(n) == Content(<<Key("python", n)>>)

IsKey(b) == b.kind = "KEY"
IsCert(b) == b.kind = "CERT"

\* context.load_cert_chain('server.pem'): the first certificate and the first
\* private key found in the file, which must belong together
Loads(f) ==
    /\ f.exists
    /\ LET keys == SelectSeq(f.data, IsKey)
           certs == SelectSeq(f.data, IsCert)
       IN /\ Len(keys) > 0
          /\ Len(certs) > 0
          /\ keys[1].id = certs[1].id

\* files an operator may have put at the path before the first run
OperatorFiles ==
    { Absent,
      Content(<<Key("operator", 0), Cert("operator", 0)>>),
      Content(<<Key("operator", 0)>>),
      Content(<<Junk>>) }

----------------------------------------------------------------------------
(* Environment of one run *)

ToolStates == {"ok", "missing", "fails_clean", "fails_partial", "oserror"}
LibraryStates == {"available", "missing"}
DiskStates == {"ok", "readonly", "full"}
PortStates == {"free", "in_use"}

Environments ==
    [tool : ToolStates, crypto : LibraryStates, disk : DiskStates, port : PortStates]

\* status of a process ended by an unhandled KeyboardInterrupt
InterruptStatus == {1, 130}

NoSocket == [kind |-> "none", port |-> 0]
Running == [reason |-> "running", code |-> 0]
Exited(reason, code) == [reason |-> reason, code |-> code]

----------------------------------------------------------------------------
Init ==
    /\ file \in OperatorFiles
    /\ env \in Environments
    /\ pc = "check"
    /\ run = 1
    /\ startFile = file
    /\ attempts = <<>>
    /\ provision = "pending"
    /\ sock = NoSocket
    /\ listened = FALSE
    /\ loadResult = "none"
    /\ backlog = 0
    /\ handled = <<>>
    /\ exit = Running

\* the process ends: its socket is closed and pending connections are dropped
Terminate(reason, code) ==
    /\ pc' = "exited"
    /\ exit' = Exited(reason, code)
    /\ sock' = NoSocket
    /\ backlog' = 0

----------------------------------------------------------------------------
(* Credential provisioning, lines 17-98 *)

CheckExists_Always ==
    /\ pc = "check"
    /\ pc' = "methodA"
    /\ UNCHANGED <<file, env, run, startFile, attempts, provision, sock,
                   listened, loadResult, backlog, handled, exit>>

\* if not os.path.exists('server.pem')
CheckExists ==
    /\ pc = "check"
    /\ IF file.exists
       THEN /\ pc' = "bootstrap"
            /\ provision' = "existed"
       ELSE /\ pc' = "methodA"
            /\ UNCHANGED provision
    /\ UNCHANGED <<file, env, run, startFile, attempts, sock,
                   listened, loadResult, backlog, handled, exit>>

MethodASuccess_FallsThrough ==
    /\ pc = "methodA"
    /\ env.tool = "ok"
    /\ attempts' = Append(attempts, "A")
    /\ file' = OpensslOutput(run)
    /\ pc' = "methodB"
    /\ UNCHANGED <<env, run, startFile, provision, sock, listened, loadResult,
                   backlog, handled, exit>>

\* subprocess.run([...openssl...], check=True) returns
MethodASuccess ==
    /\ pc = "methodA"
    /\ env.tool = "ok"
    /\ attempts' = Append(attempts, "A")
    /\ file' = OpensslOutput(run)
    /\ provision' = "A"
    /\ pc' = "bootstrap"
    /\ UNCHANGED <<env, run, startFile, sock, listened, loadResult, backlog, handled, exit>>

MethodAFallback_OnlyNotFound ==
    /\ pc = "methodA"
    /\ env.tool \in {"missing", "fails_clean", "fails_partial"}
    /\ attempts' = Append(attempts, "A")
    /\ file' = IF env.tool = "fails_partial" THEN OpensslPartial(run) ELSE file
    /\ IF env.tool = "missing"
       THEN /\ pc' = "methodB"
            /\ UNCHANGED <<sock, backlog, exit>>
       ELSE Terminate("methodA_error", 1)
    /\ UNCHANGED <<env, run, startFile, provision, listened, loadResult, handled>>

\* except (FileNotFoundError, subprocess.CalledProcessError): the tool is not
\* on the path, or it exited non-zero (having written nothing, or the key only)
MethodAFallback ==
    /\ pc = "methodA"
    /\ env.tool \in {"missing", "fails_clean", "fails_partial"}
    /\ attempts' = Append(attempts, "A")
    /\ file' = IF env.tool = "fails_partial" THEN OpensslPartial(run) ELSE file
    /\ pc' = "methodB"
    /\ UNCHANGED <<env, run, startFile, provision, sock, listened, loadResult,
                   backlog, handled, exit>>

\* any other exception of subprocess.run (PermissionError, other OSError) is
\* not named by the except clause and ends the process with a traceback
MethodAUncaught ==
    /\ pc = "methodA"
    /\ env.tool = "oserror"
    /\ attempts' = Append(attempts, "A")
    /\ Terminate("methodA_error", 1)
    /\ UNCHANGED <<file, env, run, startFile, provision, listened, loadResult, handled>>

MethodBImport_NoExit ==
    /\ pc = "methodB"
    /\ attempts' = Append(attempts, "B")
    /\ IF env.crypto = "available" THEN pc' = "generateB" ELSE pc' = "bootstrap"
    /\ UNCHANGED <<file, env, run, startFile, provision, sock, listened, loadResult,
                   backlog, handled, exit>>

\* from cryptography import ...; except ImportError: ... sys.exit(1)
MethodBImport ==
    /\ pc = "methodB"
    /\ attempts' = Append(attempts, "B")
    /\ IF env.crypto = "available"
       THEN /\ pc' = "generateB"
            /\ UNCHANGED <<sock, backlog, exit>>
       ELSE Terminate("fatal_provisioning", 1)
    /\ UNCHANGED <<file, env, run, startFile, provision, listened, loadResult, handled>>

MethodBGenerate_CertFirst ==
    /\ pc = "generateB"
    /\ env.disk = "ok"
    /\ file' = MethodBOutput_CertFirst(run)
    /\ provision' = "B"
    /\ pc' = "bootstrap"
    /\ UNCHANGED <<env, run, startFile, attempts, sock, listened, loadResult,
                   backlog, handled, exit>>

\* key and certificate are built, open('server.pem', 'wb') truncates or creates
\* the file and both PEM blocks are written
MethodBGenerate ==
    /\ pc = "generateB"
    /\ env.disk = "ok"
    /\ file' = MethodBOutput(run)
    /\ provision' = "B"
    /\ pc' = "bootstrap"
    /\ UNCHANGED <<env, run, startFile, attempts, sock, listened, loadResult,
                   backlog, handled, exit>>

\* open() or write() raises OSError: not an ImportError, so the process ends
\* with a traceback; open() failed leaves the path as it was, write() failed
\* leaves what was written
MethodBWriteError ==
    /\ pc = "generateB"
    /\ env.disk \in {"readonly", "full"}
    /\ file' = IF env.disk = "full" THEN MethodBPartial(run) ELSE file
    /\ Terminate("methodB_error", 1)
    /\ UNCHANGED <<env, run, startFile, attempts, provision, listened, loadResult, handled>>

----------------------------------------------------------------------------
(* Listener bootstrap, lines 107-116 *)

\* http.server.HTTPServer(server_address, handler): bind and listen
Bind ==
    /\ pc = "bootstrap"
    /\ IF env.port = "free"
       THEN /\ sock' = [kind |-> "plain", port |-> PORT]
            /\ listened' = TRUE
            /\ pc' = "bound"
            /\ UNCHANGED <<backlog, exit>>
       ELSE /\ Terminate("bind_error", 1)
            /\ UNCHANGED listened
    /\ UNCHANGED <<file, env, run, startFile, attempts, provision,
                   loadResult, handled>>

LoadCertChain_Unchecked ==
    /\ pc = "bound"
    /\ loadResult' = "ok"
    /\ pc' = "loaded"
    /\ UNCHANGED <<file, env, run, startFile, attempts, provision, sock,
                   listened, backlog, handled, exit>>

\* ssl.SSLContext(PROTOCOL_TLS_SERVER); context.load_cert_chain('server.pem')
LoadCertChain ==
    /\ pc = "bound"
    /\ IF Loads(file)
       THEN /\ loadResult' = "ok"
            /\ pc' = "loaded"
            /\ UNCHANGED <<sock, backlog, exit>>
       ELSE /\ loadResult' = "failed"
            /\ Terminate("load_error", 1)
    /\ UNCHANGED <<file, env, run, startFile, attempts, provision, listened, handled>>

\* httpd.socket = context.wrap_socket(httpd.socket, server_side=True)
WrapSocket ==
    /\ pc = "loaded"
    /\ sock' = [sock EXCEPT !.kind = "tls"]
    /\ pc' = "serving"
    /\ UNCHANGED <<file, env, run, startFile, attempts, provision,
                   listened, loadResult, backlog, handled, exit>>

\* a client connects to the listening port; the kernel queues the connection
ClientConnect ==
    /\ sock.kind # "none"
    /\ backlog < MaxBacklog
    /\ backlog' = backlog + 1
    /\ UNCHANGED <<file, env, pc, run, startFile, attempts, provision, sock,
                   listened, loadResult, handled, exit>>

Accept_WhenListening ==
    /\ sock.kind # "none"
    /\ backlog > 0
    /\ Len(handled) < MaxHandled
    /\ backlog' = backlog - 1
    /\ handled' = Append(handled, sock.kind)
    /\ UNCHANGED <<file, env, pc, run, startFile, attempts, provision, sock,
                   listened, loadResult, exit>>

\* httpd.serve_forever(): accept on httpd.socket and run the request handler
Accept ==
    /\ pc = "serving"
    /\ backlog > 0
    /\ Len(handled) < MaxHandled
    /\ backlog' = backlog - 1
    /\ handled' = Append(handled, sock.kind)
    /\ UNCHANGED <<file, env, pc, run, startFile, attempts, provision, sock,
                   listened, loadResult, exit>>

\* Ctrl-C while serve_forever runs: KeyboardInterrupt is not caught
Interrupt ==
    /\ pc = "serving"
    /\ \E code \in InterruptStatus : Terminate("interrupt", code)
    /\ UNCHANGED <<file, env, run, startFile, attempts, provision,
                   listened, loadResult, handled>>

----------------------------------------------------------------------------
(* Between runs *)

\* python https_server.py is run again, in whatever environment there is then
StartRun ==
    /\ pc = "exited"
    /\ run < MaxRuns
    /\ run' = run + 1
    /\ env' \in Environments
    /\ pc' = "check"
    /\ startFile' = file
    /\ attempts' = <<>>
    /\ provision' = "pending"
    /\ listened' = FALSE
    /\ loadResult' = "none"
    /\ handled' = <<>>
    /\ exit' = Running
    /\ UNCHANGED <<file, sock, backlog>>

\* the operator deletes server.pem
OperatorRemove ==
    /\ pc = "exited"
    /\ file.exists
    /\ file' = Absent
    /\ UNCHANGED <<env, pc, run, startFile, attempts, provision, sock,
                   listened, loadResult, backlog, handled, exit>>

----------------------------------------------------------------------------
\* the statements of the script itself
ScriptStep ==
    \/ CheckExists
    \/ MethodASuccess
    \/ MethodAFallback
    \/ MethodAUncaught
    \/ MethodBImport
    \/ MethodBGenerate
    \/ MethodBWriteError
    \/ Bind
    \/ LoadCertChain
    \/ WrapSocket

Next ==
    \/ CheckExists
    \/ MethodASuccess
    \/ MethodAFallback
    \/ MethodAUncaught
    \/ MethodBImport
    \/ MethodBGenerate
    \/ MethodBWriteError
    \/ Bind
    \/ LoadCertChain
    \/ WrapSocket
    \/ ClientConnect
    \/ Accept
    \/ Interrupt
    \/ StartRun
    \/ OperatorRemove

Spec == Init /\ [][Next]_vars

\* the script runs to its next statement; nothing obliges the clients, the
\* operator or the interrupt
FairSpec == Spec /\ WF_vars(ScriptStep)

----------------------------------------------------------------------------
(* Properties *)

ToolUnavailable == env.tool \in {"missing", "fails_clean", "fails_partial"}
SuccessOutcomes == {"existed", "A", "B"}
Loaded == loadResult = "ok" /\ pc # "exited"

\* C1: a run that starts with server.pem present attempts neither Method A
\* nor Method B, does not validate the file before the bootstrap, counts the
\* file as provisioned whatever it holds, and leaves its content as it was at
\* the start of the run for as long as the process lives.
C1_IdempotentProvisioning ==
    startFile.exists =>
        /\ attempts = <<>>
        /\ pc \notin {"methodA", "methodB", "generateB"}
        /\ (pc \in {"check", "bootstrap"} => loadResult = "none")
        /\ (pc # "check" => provision = "existed")
        /\ (pc # "exited" => file = startFile)

C1_Witness ==
    /\ run > 1
    /\ startFile = OpensslPartial(1)
    /\ pc = "bootstrap"
    /\ provision = "existed"

\* C2: in a run that starts without server.pem, Method A is the first method
\* attempted; when the tool is missing or exits non-zero, Method B is
\* attempted before the fatal exit; when the tool succeeds, Method B is not
\* attempted.
C2_FallbackOrdering ==
    ~startFile.exists =>
        /\ attempts \in {<<>>, <<"A">>, <<"A", "B">>}
        /\ (pc \notin {"check", "methodA"} => attempts # <<>>)
        /\ (ToolUnavailable /\ pc \notin {"check", "methodA", "methodB"}
               => attempts = <<"A", "B">>)
        /\ (pc = "exited" /\ exit.reason = "fatal_provisioning"
               => attempts = <<"A", "B">>)
        /\ (env.tool = "ok"
               => attempts # <<"A", "B">> /\ pc \notin {"methodB", "generateB"})

C2_Witness ==
    /\ ~startFile.exists
    /\ env.tool = "fails_clean"
    /\ pc = "exited"
    /\ exit.reason = "fatal_provisioning"
    /\ attempts = <<"A", "B">>

\* C3: when server.pem is absent, the tool is missing or exits non-zero and
\* the cryptography import fails, the process exits non-zero and at exit
\* server.pem is either complete or not there.
C3_FatalPathLeavesNoPartialFile ==
    ( /\ ~startFile.exists
      /\ ToolUnavailable
      /\ env.crypto = "missing"
      /\ pc = "exited" )
    => /\ exit.code # 0
       /\ (~file.exists \/ Loads(file))

\* C4: an interrupt of the accept loop ends the process with status 0, and a
\* non-zero status comes only from the fatal provisioning path or a startup
\* error.
C4_InterruptExitsZero ==
    pc = "exited" =>
        /\ (exit.reason = "interrupt" => exit.code = 0)
        /\ (exit.code # 0 =>
               exit.reason \in {"fatal_provisioning", "methodA_error",
                                "methodB_error", "bind_error", "load_error"})

FreshRun ==
    /\ ~startFile.exists
    /\ ToolUnavailable
    /\ env.crypto = "available"
    /\ env.disk = "ok"
    /\ env.port = "free"

\* C5: a run that starts with no server.pem, the tool unavailable, the
\* library available, the disk writable and the port free eventually serves
\* on port 8443 with server.pem holding Method B's key followed by its
\* certificate; the file is in place whenever the socket is bound, and the
\* run ends by interrupt only.
C5_FreshEnvironment ==
    /\ [](FreshRun =>
            /\ (sock.kind # "none"
                   => file = MethodBOutput(run) /\ sock.port = PORT)
            /\ (pc = "exited" => exit.reason = "interrupt"))
    /\ ((FreshRun /\ pc = "check")
           ~> (/\ FreshRun
               /\ pc = "serving"
               /\ sock = [kind |-> "tls", port |-> PORT]
               /\ file = MethodBOutput(run)))

C5_Witness ==
    /\ FreshRun
    /\ env.tool = "missing"
    /\ pc = "serving"
    /\ file = MethodBOutput(run)

MalformedRun == startFile.exists /\ ~Loads(startFile)

C8_WriteOnce ==
    [][file.exists /\ pc # "exited" => file' = file]_vars

\* C9: every connection handed to the request handler was accepted on the
\* TLS-wrapped socket after the credential was loaded; none is accepted
\* between bind and wrap, nor in a run whose credential load failed.
C9_NoPlaintextService ==
    /\ \A i \in 1..Len(handled) : handled[i] = "tls"
    /\ (handled # <<>> => loadResult = "ok")
    /\ (pc \in {"check", "methodA", "methodB", "generateB", "bootstrap",
                "bound", "loaded"} => handled = <<>>)
    /\ (loadResult = "failed" => handled = <<>>)

C9_Witness ==
    /\ pc = "serving"
    /\ handled = <<"tls">>
    /\ backlog > 0

\* C10 as stated: whatever way the tool invocation fails, Method B is
\* attempted next and the process does not end because of Method A.
C10_AnyErrorFallsBack ==
    (attempts # <<>> /\ env.tool # "ok") =>
        /\ (pc = "methodB" \/ attempts = <<"A", "B">>)
        /\ exit.reason # "methodA_error"

\* C10 amended: when the tool is not found or exits non-zero, Method B is
\* attempted next and the process does not end because of Method A; any
\* other error of the invocation ends the process with status 1 and Method B
\* is not attempted.
C10_NamedErrorsFallBack ==
    /\ (attempts # <<>> /\ ToolUnavailable) =>
           /\ (pc = "methodB" \/ attempts = <<"A", "B">>)
           /\ exit.reason # "methodA_error"
    /\ (attempts # <<>> /\ env.tool = "oserror") =>
           /\ pc = "exited"
           /\ exit = Exited("methodA_error", 1)
           /\ attempts = <<"A">>

C10_Witness ==
    /\ env.tool = "fails_partial"
    /\ pc = "generateB"
    /\ attempts = <<"A", "B">>

====
